---- MODULE Spec2Model ----
(***************************************************************************)
(* A model of the animation generator of stlrapps (src/src/vn.py,          *)
(* class ATLImageGenerator): annotate, alternate_frames_for_duration,      *)
(* generate_fixed_aligned_atl, generate_word_aligned_atl, generate_atl and *)
(* reannotate.                                                             *)
(*                                                                         *)
(* Times are exact numbers of milliseconds.  A time that is not a whole    *)
(* number of milliseconds (a frame of a word-aligned block) is a fraction  *)
(* num/den carried as its numerator over a common denominator.  A line of  *)
(* script text is a record: what the line starts with (kind), its leading  *)
(* spaces (indent), the number it shows as printed digits at a precision   *)
(* (digits, prec), its annotation comment (ann) and its other text (name,  *)
(* note).  Two texts are the same text iff their line records are equal.   *)
(***************************************************************************)
EXTENDS Integers, Sequences, FiniteSets, TLC

\* ------------------------------------------------------------------ bounds
MaxWords == 2
MaxTime == 4
MaxLines == 2
MaxCalls == 2

\* The grid of word times (ms): multiples of 104 ms, so that a time has a
\* third decimal and printing it with two decimals loses something.
TimeVals == {104 * k : k \in 0..MaxTime}
\* The frame lengths (ms) a generator is configured with or is passed.
FrameLengths == {104, 208}
WordTexts == {"a", "b"}

VARIABLES
    transcription,  \* the words: a sequence of [word, start, end]
    tduration,      \* transcription.duration
    frame_length,   \* self.frame_length
    images,         \* self._images: the index of the cycle's next element
    atl,            \* self._atl: the stored script text, a sequence of lines
    op,             \* the operation called last
    args,           \* its arguments
    ret,            \* the lines it returned
    annret,         \* the annotation annotate returned
    calls,          \* the alternate_frames_for_duration calls it made
    prevImg,        \* the last image the cycle gave before the operation
    lastImg,        \* the last image the cycle gave so far
    ncalls,         \* the operations called so far
    raised          \* the exception the operation ended in, or "none"

vars == <<transcription, tduration, frame_length, images, atl, op, args, ret,
          annret, calls, prevImg, lastImg, ncalls, raised>>

\* ------------------------------------------------------------- arithmetic
\* Python's round(num/den) and the rounding of a format specification:
\* to the nearest integer, a tie to the even one.  num >= 0, den > 0.
Round(num, den) ==
    LET q == num \div den
        r == num % den
    IN  IF 2 * r < den THEN q
        ELSE IF 2 * r > den THEN q + 1
        ELSE IF q % 2 = 0 THEN q ELSE q + 1

\* math.ceil(num/den), den > 0.
Ceil(num, den) == (num + den - 1) \div den

Max(a, b) == IF a >= b THEN a ELSE b

\* f"{x:.3f}" and f"{x:.2f}" of x = num/den ms: the digits printed after
\* scaling to thousandths and to hundredths of a second.
Fmt3(num, den) == Round(num, den)
Fmt2(num, den) == Round(num, 10 * den)

\* The milliseconds a printed number stands for.
Millis(digits, prec) == IF prec = 2 THEN 10 * digits ELSE digits

\* --------------------------------------------------------------- the text
NoAnn == [mode |-> "none", words |-> <<>>, ws |-> 0, we |-> 0, events |-> <<>>]

Line(kind, indent, name, digits, prec, ann, note) ==
    [kind |-> kind, indent |-> indent, name |-> name, digits |-> digits,
     prec |-> prec, ann |-> ann, note |-> note]

ImageLine(img) == Line("image", "full", img, 0, 0, NoAnn, "")
BlankLine == Line("blank", "", "", 0, 0, NoAnn, "")
Comment(note, name, digits, prec) == Line("comment", "full", name, digits, prec, NoAnn, note)
HeaderLine == Line("header", "initial", "", 0, 0, NoAnn, "")

\* utils.read_leading_float: the first token of the line as a number, or
\* None (-1) when the line is empty or starts with something else.
None == 0 - 1
read_leading_float(line) ==
    IF line.kind = "delay" THEN Millis(line.digits, line.prec) ELSE None

\* utils.get_space_prefix: the line's leading spaces.
get_space_prefix(line) == line.indent

\* self._images = cycle([open_mouth, closed_mouth])
CycleAt(i) == IF i % 2 = 0 THEN "open" ELSE "closed"
closed_mouth == "closed"

\* utils.frange(start, stop, step): start, start+step, ... below stop.
RECURSIVE frange(_, _, _)
frange(start, stop, step) ==
    IF start < stop THEN <<start>> \o frange(start + step, stop, step) ELSE <<>>

\* --------------------------------------------------------------- annotate
\* list.sort(key=item[1]): a stable sort by time.
RECURSIVE InsertByTime(_, _)
InsertByTime(sorted, b) ==
    IF sorted = <<>> THEN <<b>>
    ELSE IF sorted[Len(sorted)].time <= b.time THEN Append(sorted, b)
    ELSE Append(InsertByTime(SubSeq(sorted, 1, Len(sorted) - 1), b), sorted[Len(sorted)])

RECURSIVE SortByTime(_)
SortByTime(bs) ==
    IF bs = <<>> THEN <<>>
    ELSE InsertByTime(SortByTime(SubSeq(bs, 1, Len(bs) - 1)), bs[Len(bs)])

\* start <= t.start < end, for the window [s/den, e/den).
InStartWindowClosed(t, s, e, den) == s <= t.start * den /\ t.start * den <= e
InStartWindow(t, s, e, den) == s <= t.start * den /\ t.start * den < e

\* start < t.end <= end.
InEndWindow(t, s, e, den) == s < t.end * den /\ t.end * den <= e

RECURSIVE Boundaries(_, _, _, _, _)
Boundaries(ts, s, e, den, bound) ==
    IF ts = <<>> THEN <<>>
    ELSE LET t == Head(ts)
             inside == IF bound = "start" THEN InStartWindow(t, s, e, den)
                       ELSE InEndWindow(t, s, e, den)
             time == IF bound = "start" THEN t.start ELSE t.end
         IN  (IF inside THEN <<[word |-> t.word, time |-> time, bound |-> bound]>> ELSE <<>>)
             \o Boundaries(Tail(ts), s, e, den, bound)

\* f"| {word!r} [{bound} @ {time:.2f}]"
Event(b) == [word |-> b.word, time |-> Fmt2(b.time, 1), bound |-> b.bound]

\* annotate(start, end, verbose, assisted) for the window [s/den, e/den).
annotate(s, e, den, verbose, assisted) ==
    IF assisted /\ ~verbose THEN NoAnn
    ELSE LET starts == SortByTime(Boundaries(transcription, s, e, den, "start"))
         IN  IF ~verbose
             THEN IF starts = <<>> THEN NoAnn
                  ELSE [NoAnn EXCEPT !.mode = "simple",
                                     !.words = [i \in 1..Len(starts) |-> starts[i].word]]
             ELSE LET all == SortByTime(starts \o Boundaries(transcription, s, e, den, "end"))
                  IN  [mode |-> "verbose", words |-> <<>>,
                       ws |-> Fmt3(s, den), we |-> Fmt3(e, den),
                       events |-> [i \in 1..Len(all) |-> Event(all[i])]]

\* ------------------------------------------ alternate_frames_for_duration
\* The delay line of a frame: f"{indent}{self.frame_length:.3f}{annotation}".
DelayLine(step, den, ann) ==
    Line("delay", "full", "", Fmt3(frame_length, 1), 3, ann, "")

\* The loop over zip(frange(...), self._images): an image line and a delay
\* line per time point, the cycle advanced once per time point.
RECURSIVE FrameLoop(_, _, _, _, _)
FrameLoop(times, img, step, den, verbose) ==
    IF times = <<>> THEN <<>>
    ELSE <<ImageLine(CycleAt(img)),
           DelayLine(step, den, annotate(Head(times), Head(times) + step, den, verbose, FALSE))>>
         \o FrameLoop(Tail(times), img + 1, step, den, verbose)

\* The image the cycle gives for the forced closing line: next(self._images).
ClosingImage(img, n) == CycleAt(img + n)

\* The cycle after n frames and, when closing, the forced closing line.
CycleAfterNoAdvance(img, n, closing) == (img + n) % 2
CycleAfter(img, n, closing) == (img + n + (IF closing THEN 1 ELSE 0)) % 2

\* What a call was made for: the segment or the word (none for a direct call).
NoUnit == [start |-> 0, duration |-> 0, wait_after |-> 0]

\* alternate_frames_for_duration(duration, start, time_step, ensure_close,
\* verbose) with the cycle at img: duration, start and time_step are
\* numerators over den.  The record is the call: its arguments, the lines it
\* returns, the last image of the loop and the cycle it leaves.
alternate_frames_for_duration(img, duration, start, time_step, den, ensure_close, verbose) ==
    LET times == frange(start, start + duration, time_step)
        n == Len(times)
        image == IF n = 0 THEN "none" ELSE CycleAt(img + n - 1)
        closing == ensure_close /\ image # closed_mouth
        loop == FrameLoop(times, img, time_step, den, verbose)
    IN  [duration |-> duration, start |-> start, time_step |-> time_step, den |-> den,
         ensure_close |-> ensure_close, verbose |-> verbose, entry |-> img,
         frames |-> n,
         unit |-> NoUnit, after |-> <<>>,
         lines |-> IF closing THEN Append(loop, ImageLine(ClosingImage(img, n))) ELSE loop,
         image |-> image,
         images |-> CycleAfter(img, n, closing)]

\* ---------------------------------------------------- the transcription
\* Transcription.start: the first word's start, or 0.
TStart == IF transcription = <<>> THEN 0 ELSE transcription[1].start

\* Transcription.waits: the pause after each word, the last one the
\* silence that trails the last word.
Waits ==
    [i \in 1..Len(transcription) |->
        IF i < Len(transcription)
        THEN transcription[i + 1].start - transcription[i].end
        ELSE Max(tduration - transcription[i].end, 0)]

\* Transcription.get_segments(tolerance): the maximal runs of words with no
\* pause above the tolerance, each with its start, duration and wait_after.
RECURSIVE SegmentsFrom(_, _, _)
SegmentsFrom(i, first, tolerance) ==
    IF i > Len(transcription) THEN <<>>
    ELSE IF i = Len(transcription) \/ Waits[i] > tolerance
         THEN <<[start |-> transcription[first].start,
                 duration |-> transcription[i].end - transcription[first].start,
                 wait_after |-> Waits[i]]>>
              \o SegmentsFrom(i + 1, i + 1, tolerance)
         ELSE SegmentsFrom(i + 1, first, tolerance)

get_segments(tolerance) == SegmentsFrom(1, 1, tolerance)

\* --------------------------------------------- generate_fixed_aligned_atl
FixedHeader ==
    <<HeaderLine, Comment("transcription", "", 0, 0),
      Comment("length", "", Fmt3(tduration, 1), 3), Comment("confidence", "", 0, 0)>>

\* The frames a segment's rounded duration takes: math.ceil(d / fl) * fl.
RoundedDurationFloor(d, fl) == (d \div fl) * fl
RoundedDuration(d, fl) == Ceil(d, fl) * fl

\* The pause after a segment: f"{wait:.2f}  # pause" between blank lines,
\* when wait > 0.
WaitLines(wait) ==
    IF wait > 0
    THEN <<BlankLine, Line("delay", "full", "", Fmt2(wait, 1), 2, NoAnn, "pause"), BlankLine>>
    ELSE <<>>

\* The loop over the segments: the lines, the cycle left, the calls made.
RECURSIVE FixedSegments(_, _, _, _)
FixedSegments(segments, img, fl, verbose) ==
    IF segments = <<>> THEN [lines |-> <<>>, images |-> img, calls |-> <<>>]
    ELSE LET segment == Head(segments)
             duration == RoundedDuration(segment.duration, fl)
             overstep == duration - segment.duration
             call == alternate_frames_for_duration(img, duration, segment.start, fl, 1, TRUE, verbose)
             wait_lines == WaitLines(segment.wait_after - overstep)
             rest == FixedSegments(Tail(segments), call.images, fl, verbose)
         IN  [lines |-> call.lines \o wait_lines \o rest.lines,
              images |-> rest.images,
              calls |-> <<[call EXCEPT !.unit = segment, !.after = wait_lines]>> \o rest.calls]

generate_fixed_aligned_atl(img, fl, verbose) ==
    LET body == FixedSegments(get_segments(fl), img, fl, verbose)
    IN  [body EXCEPT !.lines = FixedHeader \o @]

\* ---------------------------------------------- generate_word_aligned_atl
WordHeader ==
    <<HeaderLine, Comment("transcription", "", 0, 0),
      Comment("length", "", Fmt2(tduration, 1), 2), Comment("confidence", "", 0, 0),
      ImageLine(closed_mouth), Line("delay", "full", "", TStart, 0, NoAnn, "")>>

\* max(round(word.duration / self.frame_length), 1): the frames of a word.
WordFrames(d) == Max(Round(d, frame_length), 1)

\* _generate_word_aligned_block(word): the frame length is d / WordFrames(d),
\* so the call's times are numerators over WordFrames(d).
generate_word_aligned_block(img, word, verbose) ==
    LET d == word.end - word.start
        n == WordFrames(d)
    IN  alternate_frames_for_duration(img, d * n, word.start * n, d, n, TRUE, verbose)

RECURSIVE WordBlocks(_, _, _)
WordBlocks(i, img, verbose) ==
    IF i > Len(transcription) THEN [lines |-> <<>>, images |-> img, calls |-> <<>>]
    ELSE LET word == transcription[i]
             d == word.end - word.start
             wait == Waits[i]
             call == generate_word_aligned_block(img, word, verbose)
             block == <<Comment("pre", word.word, Fmt2(d, 1), 2)>> \o call.lines
                      \o <<Comment("post", word.word, 0, 0)>>
             wait_lines == IF wait # 0
                           THEN <<BlankLine,
                                  Line("delay", "full", "", Fmt3(wait, 1), 3, NoAnn, "(pause)"),
                                  BlankLine>>
                           ELSE <<>>
             rest == WordBlocks(i + 1, call.images, verbose)
         IN  [lines |-> block \o wait_lines \o rest.lines,
              images |-> rest.images,
              calls |-> <<[call EXCEPT !.unit = [start |-> word.start, duration |-> d,
                                                 wait_after |-> wait],
                                       !.after = wait_lines]>> \o rest.calls]

generate_word_aligned_atl(img, verbose) ==
    LET body == WordBlocks(1, img, verbose)
    IN  [body EXCEPT !.lines = WordHeader \o @]

\* ----------------------------------------------------------- generate_atl
\* The keys of lookup, and other names a caller may pass.
Alignments == {"word alignment", "fixed alignment", "other alignment"}
LookupKeys == {"word alignment", "fixed alignment"}

\* The keyword-only parameters without a default of the method a key looks
\* up: generate_fixed_aligned_atl(self, *, frame_length, verbose=True) and
\* generate_word_aligned_atl(self, *, verbose=True).
RequiredKeywords(alignment) ==
    IF alignment = "fixed alignment" THEN {"frame_length"} ELSE {}

\* The keywords of the call lookup[alignment](verbose=verbose).
GivenKeywords == {"verbose"}

\* The exception generate_atl ends in: KeyError from lookup[alignment],
\* TypeError when the call leaves out a required keyword, or none.
RaisedBy(alignment) ==
    IF alignment \notin LookupKeys THEN "KeyError"
    ELSE IF ~(RequiredKeywords(alignment) \subseteq GivenKeywords) THEN "TypeError"
    ELSE "none"

\* generate_atl(alignment, verbose) with the cycle at img: nothing is done
\* when the call raises before a body runs; otherwise the call binds, which
\* of the two methods only generate_word_aligned_atl's does.
generate_atl(img, alignment, verbose) ==
    IF RaisedBy(alignment) # "none"
    THEN [lines |-> <<>>, images |-> img, calls |-> <<>>]
    ELSE generate_word_aligned_atl(img, verbose)

\* ------------------------------------------------------------- reannotate
\* if time >= self.transcription.duration: break
CutAfter(time) == time > tduration
Cut(time) == time >= tduration

\* The delay line as rewritten: f"{prefix}{pause:.2f}{annotation}".
Rewritten(line, pause, time, verbose) ==
    Line("delay", get_space_prefix(line), "", Fmt2(pause, 1), 2,
         annotate(time, time + pause, 1, verbose, FALSE), "")

\* The for loop over atl.splitlines(): the lines so far, the time reached
\* and whether the loop ended by break.
RECURSIVE ReannotateLoop(_, _, _)
ReannotateLoop(input, time, verbose) ==
    IF input = <<>> THEN [lines |-> <<>>, time |-> time, broke |-> FALSE]
    ELSE LET line == Head(input)
             pause == read_leading_float(line)
         IN  IF pause = None
             THEN LET rest == ReannotateLoop(Tail(input), time, verbose)
                  IN  [rest EXCEPT !.lines = <<line>> \o @]
             ELSE IF Cut(time + pause)
                  THEN [lines |-> <<Rewritten(line, pause, time, verbose)>>,
                        time |-> time + pause, broke |-> TRUE]
                  ELSE LET rest == ReannotateLoop(Tail(input), time + pause, verbose)
                       IN  [rest EXCEPT !.lines = <<Rewritten(line, pause, time, verbose)>> \o @]

\* The else branch of the loop: the frames added when the text ends early.
Extension(img, time, broke, verbose) ==
    IF ~broke /\ time < tduration
    THEN <<alternate_frames_for_duration(img, tduration - time, time, frame_length, 1, TRUE, verbose)>>
    ELSE <<>>

reannotate(img, input, verbose) ==
    LET loop == ReannotateLoop(input, 0, verbose)
        added == Extension(img, loop.time, loop.broke, verbose)
    IN  [lines |-> IF added = <<>> THEN loop.lines ELSE loop.lines \o added[1].lines,
         images |-> IF added = <<>> THEN img ELSE added[1].images,
         calls |-> added,
         time |-> loop.time, broke |-> loop.broke, consumed |-> Len(loop.lines)]

\* ------------------------------------------------------------ the machine
\* The image lines of a text, in order, and those the calls took from the
\* cycle.
RECURSIVE ImagesOf(_)
ImagesOf(lines) ==
    IF lines = <<>> THEN <<>>
    ELSE (IF Head(lines).kind = "image" THEN <<Head(lines).name>> ELSE <<>>)
         \o ImagesOf(Tail(lines))

RECURSIVE CycleImages(_)
CycleImages(cs) ==
    IF cs = <<>> THEN <<>> ELSE ImagesOf(Head(cs).lines) \o CycleImages(Tail(cs))

LastOf(seq, default) == IF seq = <<>> THEN default ELSE seq[Len(seq)]

NoArgs ==
    [frame_length |-> 0, verbose |-> FALSE, assisted |-> FALSE, start |-> 0, end |-> 0,
     atl |-> <<>>, from |-> "", fromVerbose |-> FALSE, fromFrameLength |-> 0,
     alignment |-> ""]

WordAt(i, s, e) == [word |-> IF i % 2 = 1 THEN "a" ELSE "b", start |-> s, end |-> e]

\* The transcriptions: words with start <= end, in order, none overlapping
\* the next.
Transcriptions ==
    UNION {{t \in [1..n -> [start : TimeVals, end : TimeVals]] :
                /\ \A i \in 1..n : t[i].start <= t[i].end
                /\ \A i \in 1..(n - 1) : t[i].end <= t[i + 1].start}
           : n \in 0..MaxWords}

\* The texts a user may hand to reannotate after editing: a few lines, each
\* an image line or a delay line of 0.104 s with its own indentation.
EditedLines == {ImageLine("open"), Line("delay", "initial", "", 104, 3, NoAnn, "pause")}
EditedTexts == UNION {[1..n -> EditedLines] : n \in 0..MaxLines}

\* ATLImageGenerator.__init__
Init ==
    /\ \E t \in Transcriptions :
          /\ transcription = [i \in 1..Len(t) |-> WordAt(i, t[i].start, t[i].end)]
          /\ tduration \in {LastOf(t, [end |-> 0]).end, LastOf(t, [end |-> 0]).end + 104}
    /\ frame_length \in FrameLengths
    /\ images = 0
    /\ atl = <<>>
    /\ op = "init"
    /\ args = NoArgs
    /\ ret = <<>>
    /\ annret = NoAnn
    /\ calls = <<>>
    /\ prevImg = "none"
    /\ lastImg = "none"
    /\ ncalls = 0
    /\ raised = "none"

Config == <<transcription, tduration, frame_length>>

\* What every operation that runs frames leaves: the cycle, the calls and
\* the images the cycle gave.
Ran(name, a, r) ==
    /\ ncalls < MaxCalls
    /\ ncalls' = ncalls + 1
    /\ op' = name
    /\ args' = a
    /\ ret' = r.lines
    /\ calls' = r.calls
    /\ images' = r.images
    /\ prevImg' = lastImg
    /\ lastImg' = LastOf(CycleImages(r.calls), lastImg)
    /\ annret' = NoAnn
    /\ raised' = "none"
    /\ UNCHANGED Config

GenerateWordStoring(verbose) ==
    LET r == generate_word_aligned_atl(images, verbose)
    IN  /\ Ran("generate_word_aligned_atl", [NoArgs EXCEPT !.verbose = verbose], r)
        /\ atl' = r.lines

\* generate_fixed_aligned_atl(frame_length=fl, verbose=verbose)
GenerateFixed(fl, verbose) ==
    LET r == generate_fixed_aligned_atl(images, fl, verbose)
    IN  /\ Ran("generate_fixed_aligned_atl",
               [NoArgs EXCEPT !.frame_length = fl, !.verbose = verbose], r)
        /\ atl' = r.lines

\* generate_word_aligned_atl(verbose=verbose)
GenerateWord(verbose) ==
    /\ Ran("generate_word_aligned_atl", [NoArgs EXCEPT !.verbose = verbose],
           generate_word_aligned_atl(images, verbose))
    /\ UNCHANGED atl

\* reannotate(atl=input, verbose=verbose); from names where the text came from.
Reannotate(input, verbose, from) ==
    /\ Ran("reannotate",
           [NoArgs EXCEPT !.verbose = verbose, !.atl = input, !.from = from,
                          !.fromVerbose = args.verbose, !.fromFrameLength = args.frame_length],
           reannotate(images, input, verbose))
    /\ UNCHANGED atl

\* AstralApp._update_annotations: reannotate the text generated last.
ReannotateGenerated(verbose) ==
    /\ op \in {"generate_fixed_aligned_atl", "generate_word_aligned_atl"}
    /\ Reannotate(ret, verbose, op)

\* reannotate on a text the user wrote or edited.
ReannotateEdited(input, verbose) == Reannotate(input, verbose, "edited")

\* annotate(start, end, verbose=verbose, assisted=assisted)
Annotate(start, end, verbose, assisted) ==
    /\ ncalls < MaxCalls
    /\ ncalls' = ncalls + 1
    /\ op' = "annotate"
    /\ args' = [NoArgs EXCEPT !.start = start, !.end = end, !.verbose = verbose,
                              !.assisted = assisted]
    /\ annret' = annotate(start, end, 1, verbose, assisted)
    /\ ret' = <<>>
    /\ calls' = <<>>
    /\ prevImg' = lastImg
    /\ raised' = "none"
    /\ UNCHANGED <<Config, images, atl, lastImg>>

\* alternate_frames_for_duration(duration, start, time_step, ensure_close, verbose)
AlternateFrames(duration, start, time_step, ensure_close, verbose) ==
    LET call == alternate_frames_for_duration(images, duration, start, time_step, 1,
                                              ensure_close, verbose)
    IN  /\ Ran("alternate_frames_for_duration", [NoArgs EXCEPT !.verbose = verbose],
               [lines |-> call.lines, images |-> call.images, calls |-> <<call>>])
        /\ UNCHANGED atl

\* generate_atl(alignment=alignment, verbose=verbose)
GenerateAtl(alignment, verbose) ==
    LET r == generate_atl(images, alignment, verbose)
    IN  /\ ncalls < MaxCalls
        /\ ncalls' = ncalls + 1
        /\ op' = "generate_atl"
        /\ args' = [NoArgs EXCEPT !.alignment = alignment, !.verbose = verbose]
        /\ raised' = RaisedBy(alignment)
        /\ ret' = r.lines
        /\ calls' = r.calls
        /\ images' = r.images
        /\ prevImg' = lastImg
        /\ lastImg' = LastOf(CycleImages(r.calls), lastImg)
        /\ annret' = NoAnn
        /\ UNCHANGED <<Config, atl>>

Next ==
    \/ \E fl \in FrameLengths, verbose \in BOOLEAN : GenerateFixed(fl, verbose)
    \/ \E verbose \in BOOLEAN : GenerateWord(verbose)
    \/ \E verbose \in BOOLEAN : ReannotateGenerated(verbose)
    \/ \E input \in EditedTexts, verbose \in BOOLEAN : ReannotateEdited(input, verbose)
    \/ \E start \in {0, 104}, end \in {104, 208}, verbose \in BOOLEAN, assisted \in BOOLEAN :
          Annotate(start, end, verbose, assisted)
    \/ \E duration \in {0, 104, 208}, time_step \in FrameLengths, ensure_close \in BOOLEAN :
          AlternateFrames(duration, 0, time_step, ensure_close, FALSE)
    \/ \E alignment \in Alignments, verbose \in BOOLEAN : GenerateAtl(alignment, verbose)

Spec == Init /\ [][Next]_vars

\* generate_fixed_aligned_atl alone, called again and again.
NextFixed == \E fl \in FrameLengths, verbose \in BOOLEAN : GenerateFixed(fl, verbose)
SpecFixed == Init /\ [][NextFixed]_vars

\* annotate alone, over the transcriptions and the windows.
NextAnnotate ==
    \E start \in {0, 104}, end \in {104, 208}, verbose \in BOOLEAN, assisted \in BOOLEAN :
        Annotate(start, end, verbose, assisted)
SpecAnnotate == Init /\ [][NextAnnotate]_vars

\* The form's flow: generate once, then update the annotations of the text
\* generated; or reannotate a text written by hand.
NextReannotate ==
    \/ /\ op = "init"
       /\ \/ \E fl \in FrameLengths, verbose \in BOOLEAN : GenerateFixed(fl, verbose)
          \/ \E verbose \in BOOLEAN : GenerateWord(verbose)
          \/ \E input \in EditedTexts, verbose \in BOOLEAN : ReannotateEdited(input, verbose)
    \/ \E verbose \in BOOLEAN : ReannotateGenerated(verbose)
SpecReannotate == Init /\ [][NextReannotate]_vars

\* Every operation in any order, each with few arguments.
NextSeq ==
    \/ \E fl \in FrameLengths : GenerateFixed(fl, FALSE)
    \/ GenerateWord(FALSE)
    \/ ReannotateGenerated(FALSE)
    \/ ReannotateEdited(<<Line("delay", "initial", "", 104, 3, NoAnn, "pause")>>, FALSE)
    \/ Annotate(0, 208, TRUE, FALSE)
    \/ \E duration \in {0, 104, 208}, ensure_close \in BOOLEAN :
          AlternateFrames(duration, 0, frame_length, ensure_close, FALSE)
    \/ \E alignment \in LookupKeys : GenerateAtl(alignment, FALSE)
SpecSeq == Init /\ [][NextSeq]_vars

\* ------------------------------------------------------------- the claims
RECURSIVE DelayCount(_)
DelayCount(lines) ==
    IF lines = <<>> THEN 0
    ELSE (IF Head(lines).kind = "delay" THEN 1 ELSE 0) + DelayCount(Tail(lines))

\* The sum (ms) of the delay values printed in the first k lines of a text.
RECURSIVE DelaySum(_, _)
DelaySum(lines, k) ==
    IF k = 0 THEN 0
    ELSE (IF lines[k].kind = "delay" THEN Millis(lines[k].digits, lines[k].prec) ELSE 0)
         + DelaySum(lines, k - 1)

\* The delay lines of a text at which the time read so far reaches the
\* transcription's duration.
CutPoints(input) ==
    {k \in 1..Len(input) : input[k].kind = "delay" /\ DelaySum(input, k) >= tduration}
Least(S) == CHOOSE k \in S : \A j \in S : k <= j

Fixed == op = "generate_fixed_aligned_atl"
Worded == op = "generate_word_aligned_atl"
Reannotated == op = "reannotate"

\* C1: reannotate, called without verbose on the text generate_fixed_aligned_atl
\* returned without verbose for the configured frame length, returns that
\* same text.
RoundTrip_C1 ==
    (/\ Reannotated /\ args.from = "generate_fixed_aligned_atl"
     /\ ~args.verbose /\ ~args.fromVerbose /\ args.fromFrameLength = frame_length)
    => ret = args.atl

\* C2: every delay line of a call of alternate_frames_for_duration shows the
\* call's time_step (to 3 decimals).
DelayIsTimeStep_C2 ==
    \A i \in 1..Len(calls) : \A j \in 1..Len(calls[i].lines) :
        calls[i].lines[j].kind = "delay"
        => /\ calls[i].lines[j].prec = 3
           /\ calls[i].lines[j].digits = Fmt3(calls[i].time_step, calls[i].den)

\* C3: generate_word_aligned_atl makes one block per word, and the block of a
\* word of duration d holds max(round(d / frame_length), 1) frames.
WordFrameCount_C3 ==
    Worded =>
        /\ Len(calls) = Len(transcription)
        /\ \A i \in 1..Len(calls) :
              DelayCount(calls[i].lines)
                  = Max(Round(transcription[i].end - transcription[i].start, frame_length), 1)

\* C4: a call with ensure_close returns lines whose last image line is the
\* closed-mouth image: one image line more than the loop's when the loop did
\* not end on the closed-mouth image, and that line is the closed-mouth image.
EnsureClose_C4 ==
    \A i \in 1..Len(calls) :
        LET c == calls[i]
            extra == Len(c.lines) - 2 * DelayCount(c.lines)
        IN  c.ensure_close =>
               /\ extra = (IF c.image # closed_mouth THEN 1 ELSE 0)
               /\ extra = 1 => c.lines[Len(c.lines)] = ImageLine(closed_mouth)
               /\ LastOf(ImagesOf(c.lines), "none") = closed_mouth

\* The wait left after a segment's frames: wait_after less the overstep of
\* its frames over its duration.
WaitLeft(c, fl) == c.unit.wait_after - (DelayCount(c.lines) * fl - c.unit.duration)

SegmentFrames(c, fl) ==
    /\ DelayCount(c.lines) = Ceil(c.unit.duration, fl)
    /\ DelayCount(c.lines) * fl - c.unit.duration \in 0..(fl - 1)
    /\ (c.after # <<>>) <=> (WaitLeft(c, fl) > 0)
    /\ c.after # <<>> => /\ Len(c.after) = 3
                         /\ c.after[2].kind = "delay"
                         /\ c.after[1] = BlankLine /\ c.after[3] = BlankLine

StoredByFixedOnly_C6 ==
    [][/\ op' = "generate_fixed_aligned_atl" => atl' = ret'
       /\ op' # "generate_fixed_aligned_atl" => atl' = atl]_vars

StoredByFixedOnly_C6_Witness ==
    /\ op \in {"generate_word_aligned_atl", "reannotate", "annotate",
               "alternate_frames_for_duration"}
    /\ ret # atl
    /\ atl # <<>>

\* C7: when a delay line of the input brings the time read to the duration or
\* beyond, reannotate returns as many lines as the input has up to the first
\* such line: the other lines unchanged, the delay lines rewritten in place,
\* and no frames added.
ReannotateCut_C7 ==
    (Reannotated /\ CutPoints(args.atl) # {}) =>
        LET k == Least(CutPoints(args.atl))
        IN  /\ Len(ret) = k
            /\ calls = <<>>
            /\ \A i \in 1..k :
                  IF args.atl[i].kind = "delay"
                  THEN /\ ret[i].kind = "delay"
                       /\ ret[i].indent = args.atl[i].indent
                       /\ ret[i].digits = Fmt2(Millis(args.atl[i].digits, args.atl[i].prec), 1)
                  ELSE ret[i] = args.atl[i]

ReannotateCut_C7_Witness ==
    /\ Reannotated
    /\ CutPoints(args.atl) # {}
    /\ Least(CutPoints(args.atl)) < Len(args.atl)
    /\ Least(CutPoints(args.atl)) > 1
    /\ DelaySum(args.atl, Least(CutPoints(args.atl))) = tduration

\* C8: when the input ends before the time read reaches the duration,
\* reannotate adds the frames of one call for the remaining time from the
\* time read, at the configured frame length and ending closed, and the
\* delays of the returned text sum to the duration at least; otherwise it
\* adds nothing.
ReannotateExtends_C8 ==
    Reannotated =>
        LET time == DelaySum(args.atl, Len(args.atl))
        IN  IF CutPoints(args.atl) = {} /\ time < tduration
            THEN /\ Len(calls) = 1
                 /\ calls[1].start = time /\ calls[1].duration = tduration - time
                 /\ calls[1].time_step = frame_length /\ calls[1].den = 1
                 /\ ret = SubSeq(ret, 1, Len(args.atl)) \o calls[1].lines
                 /\ LastOf(ImagesOf(calls[1].lines), "none") = closed_mouth
                 /\ DelaySum(ret, Len(ret)) >= tduration
            ELSE calls = <<>>

\* The words of the transcription that start in [start, end), and those that
\* end in (start, end].
StartsIn(start, end) ==
    {i \in 1..Len(transcription) : start <= transcription[i].start /\ transcription[i].start < end}
EndsIn(start, end) ==
    {i \in 1..Len(transcription) : start < transcription[i].end /\ transcription[i].end <= end}

\* The k-th smallest element of a set of numbers.
Nth(S, k) == CHOOSE i \in S : Cardinality({j \in S : j < i}) = k - 1

\* C9: annotate names exactly the words that start in [start, end), in
\* ascending order; with verbose it reports exactly those starts and the ends
\* in (start, end], in ascending time; it returns nothing when no word starts
\* in the window without verbose, and with assisted without verbose.
AnnotateExact_C9 ==
    op = "annotate" =>
        LET S == StartsIn(args.start, args.end)
            E == EndsIn(args.start, args.end)
            ev == annret.events
        IN  IF ~args.verbose
            THEN IF args.assisted \/ S = {} THEN annret = NoAnn
                 ELSE /\ annret.mode = "simple"
                      /\ Len(annret.words) = Cardinality(S)
                      /\ \A k \in 1..Len(annret.words) :
                            annret.words[k] = transcription[Nth(S, k)].word
            ELSE /\ annret.mode = "verbose"
                 /\ Len(ev) = Cardinality(S) + Cardinality(E)
                 /\ \A w \in WordTexts :
                       /\ Cardinality({k \in 1..Len(ev) : ev[k].word = w /\ ev[k].bound = "start"})
                              = Cardinality({i \in S : transcription[i].word = w})
                       /\ Cardinality({k \in 1..Len(ev) : ev[k].word = w /\ ev[k].bound = "end"})
                              = Cardinality({i \in E : transcription[i].word = w})
                 /\ \A k \in 1..(Len(ev) - 1) : ev[k].time <= ev[k + 1].time

AnnotateExact_C9_Witness ==
    /\ op = "annotate"
    /\ args.verbose
    /\ Len(annret.events) >= 2
    /\ \E i \in 1..Len(transcription) :
          transcription[i].start = args.end /\ transcription[i].end > args.end
    /\ \E i \in 1..Len(transcription) : transcription[i].start = args.start

\* C10: the images the calls take from the cycle alternate, within a call,
\* from a call to the next and from an operation to the next, and the first
\* one ever taken is the open-mouth image.
CycleAlternates_C10 ==
    LET given == CycleImages(calls)
    IN  /\ given # <<>> =>
              IF prevImg = "none" THEN given[1] = "open" ELSE given[1] # prevImg
        /\ \A k \in 1..(Len(given) - 1) : given[k] # given[k + 1]
        /\ lastImg = LastOf(given, prevImg)

CycleAlternates_C10_Witness ==
    /\ Len(calls) >= 2
    /\ prevImg # "none"
    /\ \A i \in 1..Len(calls) : calls[i].lines # <<>>
    /\ \E i \in 1..Len(calls) : calls[i].image = "open"
    /\ \E i \in 1..Len(calls) : calls[i].image = "none"

\* The times a word's text is named in the annotations of a text's delay lines.
RECURSIVE NameCount(_, _)
NameCount(lines, w) ==
    IF lines = <<>> THEN 0
    ELSE (IF Head(lines).kind = "delay"
          THEN Cardinality({k \in 1..Len(Head(lines).ann.words) : Head(lines).ann.words[k] = w})
          ELSE 0)
         + NameCount(Tail(lines), w)

\* The frame windows of the calls: each segment's frames start at the
\* segment's start, cover its rounded duration and end by the next call's start.
WindowsTile(fl) ==
    /\ \A i \in 1..Len(calls) :
          /\ calls[i].start = calls[i].unit.start
          /\ calls[i].frames * fl = RoundedDuration(calls[i].unit.duration, fl)
    /\ \A i \in 1..(Len(calls) - 1) :
          calls[i].start + calls[i].frames * fl <= calls[i + 1].start

\* C11: in the text generate_fixed_aligned_atl returns without verbose, every
\* word of the transcription is named in the annotation of exactly one frame
\* delay line, and the frame windows of a segment tile its rounded duration
\* and do not reach into the next segment.
WordNamedOnce_C11 ==
    (Fixed /\ ~args.verbose) =>
        /\ WindowsTile(args.frame_length)
        /\ \A w \in WordTexts :
              NameCount(ret, w) = Cardinality({i \in 1..Len(transcription) : transcription[i].word = w})

\* C12: generate_atl ends in no error for either supported alignment name: for
\* "word alignment" it returns what generate_word_aligned_atl(verbose) returns,
\* for "fixed alignment" what generate_fixed_aligned_atl returns for the
\* configured frame length and the given verbose flag.
GenerateAtlSucceeds_C12 ==
    [][(op' = "generate_atl" /\ args'.alignment \in LookupKeys) =>
          /\ raised' = "none"
          /\ ret' = IF args'.alignment = "word alignment"
                    THEN generate_word_aligned_atl(images, args'.verbose).lines
                    ELSE generate_fixed_aligned_atl(images, frame_length, args'.verbose).lines]_vars

====
